---- MODULE Spec2Model ----
(***************************************************************************)
(* weathergrab.py: one batch run loads or fetches a forecast document,     *)
(* resamples its three series onto a half-hour grid, draws the chart and   *)
(* optionally pushes it to the e-paper device.  The script is sequential;  *)
(* every run is a walk of `pc` through the script's blocks.  Runs repeat   *)
(* (the script is started by an external scheduler) and share the cache    *)
(* file on disk.                                                           *)
(*                                                                         *)
(* Time is counted in minutes of local wall-clock time since local         *)
(* midnight of day 0.  An optional value (Python None) is the empty        *)
(* sequence, a present value v is <<v>>.  Temperatures in Fahrenheit are   *)
(* kept in tenths of a degree so that 1.8*C+32 stays an integer.           *)
(***************************************************************************)
EXTENDS Integers, Sequences, FiniteSets, TLC

---------------------------------------------------------------------------
(* Bounds of the explored input space *)

\* longest series a forecast document of the forecast sweep carries
MaxLen == 2
\* number of runs of the script in one behaviour
MaxRuns == 2

---------------------------------------------------------------------------
(* Program constants *)

MinutesPerHour == 60
MinutesPerDay == 1440
HalfDayHours == 12
\* oneDayHence = measureStart + timedelta(days=1, hours=1)
LookAheadMinutes == 1500
\* curTime += timedelta(minutes=30)
GridStepMinutes == 30
\* updateTime + timedelta(hours=24) < now
CacheMaxAgeMinutes == 1440
\* type_hours: val < 0 or val > 23
MaxHourArg == 23
\* UTC offset of tzlocal.get_localzone(), minutes (the fixed location is US Eastern)
LocalUtcOffset == -300

ImageWidth == 640
ImageHeight == 400
ExteriorPadX == 38
ExteriorPadY == 20
GraphPad == 5
GraphTop == 120
CurrentTimeWidth == 20
TempFloorLow == 500
TempFloorHigh == 600
TempMargin == 100

None == << >>
Some(v) == << v >>
IsNone(o) == o = << >>
Val(o) == o[1]

Min2(a, b) == IF a <= b THEN a ELSE b
Max2(a, b) == IF a >= b THEN a ELSE b
SetMin(S) == CHOOSE x \in S : \A y \in S : x <= y
SetMax(S) == CHOOSE x \in S : \A y \in S : x >= y

---------------------------------------------------------------------------
(* datetime arithmetic on local minutes *)

DayOf(t) == t \div MinutesPerDay
HourOf(t) == (t % MinutesPerDay) \div MinutesPerHour
MinuteOf(t) == t % MinutesPerHour
\* datetime.replace(hour=h, minute=m, second=0, microsecond=0);
\* raises ValueError unless 0 <= h <= 23
ReplaceOk(h) == h >= 0 /\ h <= 23
Replace(t, h, m) == DayOf(t) * MinutesPerDay + h * MinutesPerHour + m

\* An ISO-8601 string "<timestamp><+hh:mm>[/P...]" is the pair of the wall-clock
\* minutes it names and its zone offset; IsoAt writes the string naming local
\* minute t in the zone with offset tz.
IsoAt(t, tz) == [ts |-> t - LocalUtcOffset + tz, tz |-> tz]
\* strptime(...%z).astimezone(localTz): the instant, as local minutes
extractTimeFromDuration(s) == s.ts - s.tz + LocalUtcOffset

\* strftime: every %-directive of the format is replaced by the field of the
\* date, every other piece is copied.
Lit(s) == [kind |-> "lit", text |-> s, num |-> 0]
Num(n) == [kind |-> "num", text |-> "", num |-> n]
StrftimePiece(piece, t) ==
    IF piece = "%j" THEN Num(DayOf(t))
    ELSE IF piece = "%H" THEN Num(HourOf(t))
    ELSE IF piece = "%M" THEN Num(MinuteOf(t))
    ELSE Lit(piece)
Strftime(fmt, t) == [i \in 1..Len(fmt) |-> StrftimePiece(fmt[i], t)]

\* localNow.strftime('weather_cache.json')
CacheFileFormat == << "weather_cache.json" >>
WeatherCacheFile(now) == Strftime(CacheFileFormat, now)
\* localNow.replace(hour=int(localNow.hour/12)*12, minute=0, ...)
MeasureStartOf(now) == Replace(now, (HourOf(now) \div HalfDayHours) * HalfDayHours, 0)
OneDayHenceOf(ms) == ms + LookAheadMinutes

---------------------------------------------------------------------------
(* Inputs *)

\* the wall-clock times of the first run: 05:10 and 17:40 of day 0
StartClocks == {310, 1060}
\* time between two runs of the scheduler: an hour, a day
Gaps == {60, 1440}
\* age of the service's updateTime when the document is fetched
FetchAges == {0, 60}
\* time between the script reading localNow and the staleness test reading now
CheckDelays == {0, 1}

\* validity starts a sample may carry (local minutes), the zone each is written in
SampleStart == << -60, 1500, 2220 >>
SampleZone == << 0, 0, -300 >>
PrecipValue == << 10, 20, 30 >>
TempValue == << 13, 35, -15 >>
HumidValue == << 50, 60, 70 >>

RECURSIVE Ascending(_)
Ascending(S) ==
    IF S = {} THEN << >> ELSE << SetMin(S) >> \o Ascending(S \ {SetMin(S)})

\* one series of the document: {"values": [{"value": v, "validTime": iso}, ...]},
\* in ascending validity order as the service lists them
SeriesOf(idx, values) ==
    [values |-> [k \in 1..Cardinality(idx) |->
        LET i == Ascending(idx)[k]
        IN  [value |-> values[i], validTime |-> IsoAt(SampleStart[i], SampleZone[i])]]]

Forecast(p, t, h) ==
    [probabilityOfPrecipitation |-> SeriesOf(p, PrecipValue),
     temperature |-> SeriesOf(t, TempValue),
     relativeHumidity |-> SeriesOf(h, HumidValue)]

IndexSets == {S \in SUBSET (1..Len(SampleStart)) : Cardinality(S) <= MaxLen}
\* every document whose three series each hold at most MaxLen samples
Forecasts == {Forecast(p, t, h) : p \in IndexSets, t \in IndexSets, h \in IndexSets}
\* a complete document, one without humidity, one without temperature
FewForecasts == {Forecast({1, 2}, {1, 2}, {1, 2}), Forecast({1, 2}, {1}, {}),
                 Forecast({2}, {}, {1})}

WithUpdateTime(body, iso) ==
    [updateTime |-> iso,
     probabilityOfPrecipitation |-> body.probabilityOfPrecipitation,
     temperature |-> body.temperature,
     relativeHumidity |-> body.relativeHumidity]

CommandLine(test, noEpaper, currentTime, debug) ==
    [test |-> test, no_epaper |-> noEpaper, current_time |-> currentTime,
     debug_output |-> debug]
\* every flag combination without --current-time, and every --current-time
\* from -1 to 24 with --test --no-epaper
CommandLines ==
    {CommandLine(t, n, None, d) : t \in BOOLEAN, n \in BOOLEAN, d \in BOOLEAN}
    \cup {CommandLine(TRUE, TRUE, Some(h), FALSE) : h \in -1..(MaxHourArg + 1)}
ProbeCommandLines ==
    {CommandLine(TRUE, FALSE, None, TRUE), CommandLine(FALSE, TRUE, Some(5), FALSE),
     CommandLine(FALSE, TRUE, Some(MaxHourArg + 1), TRUE)}

---------------------------------------------------------------------------
(* State *)

VARIABLES
    clock,            \* wall clock, local minutes
    fs,               \* the working directory: path -> JSON document
    runs,             \* runs started so far
    cacheFilesUsed,   \* history: (local day, cache path) of every run
    pc,               \* the block of the script the run is at
    error,            \* the exception that ended the run, "" if none
    stdout,           \* lines printed by printd
    args,             \* parsed command line
    localNow, measureStart, oneDayHence, weather_cachefile,
    result, tooOld, updateTime,
    fetches,          \* history: what each retrieve_weather call of this run returned
    cacheAtStart,     \* history: content of the cache file when the run began
    checkNow,         \* history: the `now` the staleness test read
    precip, temp, humid,
    halfHourValues, curTime, curPrecip, curTemp, curHumid,
    g,                \* locals of drawGraph
    canvas,           \* drawGraph's image: what has been drawn, in order
    img,              \* the image drawGraph returned
    testPng,          \* content of test.png
    deviceCalls,      \* device steps entered, in order
    deviceFailed,     \* the device step that raised, if any
    teardownCalls     \* calls of epdconfig.module_exit

persistent == << clock, fs, runs, cacheFilesUsed >>
ctl == << pc, error, stdout >>
modv == << args, localNow, measureStart, oneDayHence, weather_cachefile >>
acq == << result, tooOld, updateTime, fetches, cacheAtStart, checkNow >>
series == << precip, temp, humid >>
resampled == << halfHourValues, curTime, curPrecip, curTemp, curHumid >>
drawv == << g, canvas, img >>
outv == << testPng, deviceCalls, deviceFailed, teardownCalls >>
vars == << persistent, ctl, modv, acq, series, resampled, drawv, outv >>

NoFiles == [p \in {} |-> None]
isfile(path) == path \in DOMAIN fs
WriteFile(path, doc) ==
    [p \in DOMAIN fs \cup {path} |-> IF p = path THEN doc ELSE fs[p]]

\* def printd: prints only under --debug-output
printd(out, msg) == IF args.debug_output THEN Append(out, msg) ELSE out

RunLocalsReset ==
    /\ result' = None /\ tooOld' = FALSE /\ updateTime' = None
    /\ fetches' = << >> /\ checkNow' = None
    /\ precip' = << >> /\ temp' = << >> /\ humid' = << >>
    /\ halfHourValues' = << >> /\ curTime' = None
    /\ curPrecip' = None /\ curTemp' = None /\ curHumid' = None
    /\ g' = None /\ canvas' = None /\ img' = None
    /\ testPng' = None /\ deviceCalls' = << >> /\ deviceFailed' = None
    /\ teardownCalls' = 0
    /\ error' = "" /\ stdout' = << >>

InitRun ==
    /\ runs = 0 /\ cacheFilesUsed = {}
    /\ pc = "idle" /\ error = "" /\ stdout = << >>
    /\ args = None
    /\ localNow = None /\ measureStart = None /\ oneDayHence = None
    /\ weather_cachefile = None
    /\ result = None /\ tooOld = FALSE /\ updateTime = None
    /\ fetches = << >> /\ cacheAtStart = None /\ checkNow = None
    /\ precip = << >> /\ temp = << >> /\ humid = << >>
    /\ halfHourValues = << >> /\ curTime = None
    /\ curPrecip = None /\ curTemp = None /\ curHumid = None
    /\ g = None /\ canvas = None /\ img = None
    /\ testPng = None /\ deviceCalls = << >> /\ deviceFailed = None
    /\ teardownCalls = 0

\* the scheduler's first run finds no cache file
Init ==
    /\ clock \in StartClocks
    /\ fs = NoFiles
    /\ InitRun

\* the forecast sweep: the run finds no cache file, or one written an hour ago
\* holding any document
InitForecasts ==
    /\ clock \in StartClocks
    /\ fs \in {NoFiles} \cup
          {[p \in {WeatherCacheFile(clock)} |->
               WithUpdateTime(f, IsoAt(clock - MinutesPerHour, 0))] : f \in Forecasts}
    /\ InitRun

---------------------------------------------------------------------------
(* Lines 7-34: argument parsing and the module-level clock values *)

\* def type_hours
type_hoursOk(val) == ~(val < 0 \/ val > MaxHourArg)

Ended == pc \in {"idle", "done", "crashed", "usage_error"}

StartRun(cmds, maxRuns) ==
    /\ Ended
    /\ runs < maxRuns
    /\ \E cmd \in cmds, gap \in (IF runs = 0 THEN {0} ELSE Gaps) :
        LET now == clock + gap
        IN  /\ clock' = now
            /\ runs' = runs + 1
            /\ RunLocalsReset
            /\ UNCHANGED fs
            /\ IF ~IsNone(cmd.current_time) /\ ~type_hoursOk(Val(cmd.current_time))
               THEN \* argparse reports the usage error and exits
                    /\ pc' = "usage_error"
                    /\ args' = None
                    /\ localNow' = None /\ measureStart' = None
                    /\ oneDayHence' = None /\ weather_cachefile' = None
                    /\ cacheAtStart' = None
                    /\ UNCHANGED cacheFilesUsed
               ELSE /\ pc' = "check_cache"
                    /\ args' = cmd
                    /\ localNow' = now
                    /\ measureStart' = MeasureStartOf(now)
                    /\ oneDayHence' = OneDayHenceOf(MeasureStartOf(now))
                    /\ weather_cachefile' = WeatherCacheFile(now)
                    /\ cacheAtStart' =
                         IF isfile(WeatherCacheFile(now))
                         THEN Some(fs[WeatherCacheFile(now)]) ELSE None
                    /\ cacheFilesUsed' = cacheFilesUsed \cup
                         {[day |-> DayOf(now), path |-> WeatherCacheFile(now)]}

---------------------------------------------------------------------------
(* Lines 272-293: the cache load block *)

\* variant: a document exactly 24 hours old already counts as too old
TooOld_AtLeast(updated, now) == updated + CacheMaxAgeMinutes <= now

\* updateTime+datetime.timedelta(hours=24) < datetime.datetime.now(localTz)
TooOld(updated, now) == updated + CacheMaxAgeMinutes < now

CheckCache ==
    /\ pc = "check_cache"
    /\ IF isfile(weather_cachefile)
       THEN \E delay \in CheckDelays :
            LET doc == fs[weather_cachefile]
                upd == extractTimeFromDuration(doc.updateTime)
                old == TooOld(upd, localNow + delay)
                out1 == printd(stdout, "Loading cached weather")
            IN  /\ result' = Some(doc)
                /\ updateTime' = Some(upd)
                /\ checkNow' = Some(localNow + delay)
                /\ tooOld' = old
                /\ stdout' = IF old THEN printd(out1, "Cache too old") ELSE out1
                /\ pc' = IF old THEN "fetch" ELSE "extract"
       ELSE /\ UNCHANGED << result, updateTime, checkNow, tooOld, stdout >>
            /\ pc' = "fetch"
    /\ UNCHANGED << persistent, error, modv, fetches, cacheAtStart, series,
                    resampled, drawv, outv >>

\* retrieve_weather() and the write of the cache file; the service answers with
\* any document of `forecasts`, or the call raises and the run ends
Fetch(forecasts) ==
    /\ pc = "fetch"
    /\ \E ok \in BOOLEAN :
        IF ok
        THEN \E body \in forecasts, age \in FetchAges :
             LET doc == WithUpdateTime(body, IsoAt(localNow - age, 0))
             IN  /\ stdout' = printd(stdout, "Retreiving weather and caching")
                 /\ result' = Some(doc)
                 /\ fetches' = Append(fetches, Some(doc))
                 /\ fs' = WriteFile(weather_cachefile, doc)
                 /\ pc' = "extract"
                 /\ UNCHANGED error
        ELSE /\ stdout' = printd(stdout, "Retreiving weather and caching")
             /\ pc' = "crashed"
             /\ error' = "retrieve_weather raised"
             /\ fetches' = Append(fetches, None)
             /\ UNCHANGED << result, fs >>
    /\ UNCHANGED << clock, runs, cacheFilesUsed, modv, tooOld, updateTime,
                    cacheAtStart, checkNow, series, resampled, drawv, outv >>

---------------------------------------------------------------------------
(* Lines 257-263, 293-297: the retained samples of each series *)

\* variant: a sample starting exactly at oneDayHence is dropped
within24Hours_Strict(time, dayHence) == dayHence > time

\* within24Hours = lambda time: oneDayHence >= time
within24Hours(time, dayHence) == dayHence >= time

RECURSIVE extractFrom(_, _, _)
extractFrom(values, from, dayHence) ==
    IF from > Len(values) THEN << >>
    ELSE LET time == extractTimeFromDuration(values[from].validTime)
             rest == extractFrom(values, from + 1, dayHence)
         IN  IF within24Hours(time, dayHence)
             THEN << [value |-> values[from].value, validTime |-> time] >> \o rest
             ELSE rest

\* def extractTimeValues
extractTimeValues(resultGroup, dayHence) == extractFrom(resultGroup.values, 1, dayHence)

Extract ==
    /\ pc = "extract"
    /\ updateTime' = Some(extractTimeFromDuration(Val(result).updateTime))
    /\ precip' = extractTimeValues(Val(result).probabilityOfPrecipitation, oneDayHence)
    /\ temp' = extractTimeValues(Val(result).temperature, oneDayHence)
    /\ humid' = extractTimeValues(Val(result).relativeHumidity, oneDayHence)
    /\ pc' = "resample"
    /\ UNCHANGED << persistent, error, stdout, modv, result, tooOld, fetches,
                    cacheAtStart, checkNow, resampled, drawv, outv >>

---------------------------------------------------------------------------
(* Lines 299-319: the resampling loop *)

\* def convertCToF: 1.8 * cel + 32, in tenths of a degree
convertCToF(cel) == 18 * cel + 320

\* variant: a sample starting exactly at the grid time is not yet adopted
Adopt_Strict(cur, t, sample) ==
    IF IsNone(cur) \/ t > sample.validTime THEN Some(sample.value) ELSE cur
\* variant: without the `cur is None` arm
Adopt_NoFallback(cur, t, sample) ==
    IF t >= sample.validTime THEN Some(sample.value) ELSE cur

\* one `if idx < len(s) and (cur is None or curTime >= s[idx]['validTime'])` arm
Adopt(cur, t, sample) ==
    IF IsNone(cur) \/ t >= sample.validTime THEN Some(sample.value) ELSE cur

\* the `for idx in range(...)` loop, for one series: the three arms of the loop
\* body read and write disjoint variables
RECURSIVE Scan(_, _, _, _)
Scan(list, t, idx, cur) ==
    IF idx > Len(list) THEN cur
    ELSE Scan(list, t, idx + 1, Adopt(cur, t, list[idx]))

RECURSIVE Repeat(_, _, _)
Repeat(out, msg, n) == IF n = 0 THEN out ELSE Repeat(Append(out, msg), msg, n - 1)

\* one iteration of `while curTime < oneDayHence`; s holds the loop's variables,
\* the number of data-gap diagnostics and whether convertCToF(None) has raised
LoopBody(s, ps, ts, hs) ==
    LET p == Scan(ps, s.curTime, 1, None)
        t == Scan(ts, s.curTime, 1, None)
        h == Scan(hs, s.curTime, 1, None)
        gap == IsNone(p) \/ IsNone(t) \/ IsNone(h)
        seen == [s EXCEPT !.curPrecip = p, !.curTemp = t, !.curHumid = h,
                          !.gaps = IF gap THEN s.gaps + 1 ELSE s.gaps]
    IN  IF IsNone(t)
        THEN [seen EXCEPT !.raised = TRUE]
        ELSE [seen EXCEPT
                 !.values = Append(s.values,
                     [time |-> s.curTime, probabilityOfPrecipitation |-> p,
                      temperature |-> convertCToF(Val(t)), relativeHumidity |-> h]),
                 !.curTime = s.curTime + GridStepMinutes]

RECURSIVE Loop(_, _, _, _, _)
Loop(s, ps, ts, hs, dayHence) ==
    IF s.raised \/ ~(s.curTime < dayHence) THEN s
    ELSE Loop(LoopBody(s, ps, ts, hs), ps, ts, hs, dayHence)

Resample ==
    /\ pc = "resample"
    /\ \E s \in {Loop([values |-> << >>, curTime |-> measureStart, curPrecip |-> None,
                      curTemp |-> None, curHumid |-> None, gaps |-> 0,
                      raised |-> FALSE], precip, temp, humid, oneDayHence)} :
           /\ halfHourValues' = s.values
           /\ curTime' = Some(s.curTime)
           /\ curPrecip' = s.curPrecip
           /\ curTemp' = s.curTemp
           /\ curHumid' = s.curHumid
           /\ stdout' = IF args.debug_output
                        THEN Repeat(stdout, "no data for one of these values", s.gaps)
                        ELSE stdout
           /\ pc' = IF s.raised THEN "crashed" ELSE "draw_begin"
           /\ error' = IF s.raised THEN "TypeError in convertCToF" ELSE error
    /\ UNCHANGED << persistent, modv, acq, series, drawv, outv >>

---------------------------------------------------------------------------
(* Lines 63-246: drawGraph *)

GraphLeft == ExteriorPadX
GraphRight == ImageWidth - ExteriorPadX
GraphBottom == ImageHeight - ExteriorPadY
\* graphSize = (graphArea[0][1] - graphArea[0][0] - graphPadding[0]*2, ...)
GraphSizeX == GraphRight - GraphLeft - GraphPad * 2
GraphSizeY == GraphBottom - GraphTop - GraphPad * 2

\* variant: the scale without the 10-degree padding
TempExtents_NoMargin(temps) ==
    [lo |-> Min2(TempFloorLow, SetMin(temps)),
     hi |-> Max2(TempFloorHigh, SetMax(temps))]

\* tempExtents = (min(50, min(temps)-10), max(60, max(temps)+10)), in tenths
TempExtents(temps) ==
    [lo |-> Min2(TempFloorLow, SetMin(temps) - TempMargin),
     hi |-> Max2(TempFloorHigh, SetMax(temps) + TempMargin)]

\* graphArea[0][0]+graphPadding[0]+((inTime - roundBegin)/timeRange)*graphSize[0],
\* as a numerator over 2*timeRange
GraphX2(inTime, roundBegin, timeRange) ==
    2 * ((GraphLeft + GraphPad) * timeRange + (inTime - roundBegin) * GraphSizeX)

\* currTimeMark and minXes, over the denominator 2*timeRange
MarkerBand(cur, roundBegin, timeRange) ==
    LET mark == GraphX2(cur, roundBegin, timeRange)
    IN  [center |-> mark,
         left |-> Max2(2 * (GraphLeft + GraphPad) * timeRange,
                       mark - CurrentTimeWidth * timeRange),
         right |-> Min2(2 * (GraphRight - GraphPad) * timeRange,
                        mark + CurrentTimeWidth * timeRange),
         den |-> 2 * timeRange]

\* variant: the title and legend block moved to the end of the function
DrawOrder_TitleLast ==
    << "frame", "marker", "gridlines", "scale_labels",
       "line_precip", "line_temp", "line_humid", "checkpoints", "time_labels",
       "title_legend" >>

\* the statements of drawGraph that draw, in the order the function runs them
DrawOrder ==
    << "title_legend", "frame", "marker", "gridlines", "scale_labels",
       "line_precip", "line_temp", "line_humid", "checkpoints", "time_labels" >>

\* Lines 64-123: the canvas, the rounded window, the spoofed current time, the scales
DrawGraphBegin ==
    /\ pc = "draw_begin"
    /\ LET date == measureStart
           beginTime == halfHourValues[1].time
           endTime == halfHourValues[Len(halfHourValues)].time
           roundBegin == Replace(beginTime, HourOf(beginTime),
                                 IF MinuteOf(beginTime) < 30 THEN 0 ELSE 30)
           endHour == IF MinuteOf(endTime) >= 30 THEN HourOf(endTime) + 1
                      ELSE HourOf(endTime)
           roundEnd == Replace(endTime, endHour,
                               IF MinuteOf(endTime) < 30 THEN 30 ELSE 0)
           timeRange == roundEnd - roundBegin
           spoofHour == HourOf(beginTime) + Val(args.current_time)
           temps == {halfHourValues[i].temperature : i \in 1..Len(halfHourValues)}
       IN  /\ canvas' = [layers |-> << "background" >>, marker |-> None,
                         tempScale |-> None]
           /\ IF \/ ~ReplaceOk(endHour)
                 \/ ~IsNone(args.current_time) /\ ~ReplaceOk(spoofHour)
              THEN \* datetime.replace raises ValueError: hour must be in 0..23
                   /\ pc' = "crashed"
                   /\ error' = "ValueError in datetime.replace"
                   /\ UNCHANGED g
              ELSE /\ pc' = "draw"
                   /\ UNCHANGED error
                   /\ g' = [beginTime |-> beginTime, endTime |-> endTime,
                            roundBegin |-> roundBegin, roundEnd |-> roundEnd,
                            timeRange |-> timeRange,
                            hoursDisplayed |-> timeRange \div MinutesPerHour,
                            baseDate |-> Replace(date, (HourOf(roundBegin) \div 3) * 3, 0),
                            curTime |-> IF IsNone(args.current_time) THEN localNow
                                        ELSE Replace(beginTime, spoofHour,
                                                     MinuteOf(beginTime)),
                            tempExtents |-> TempExtents(temps),
                            next |-> 1]
    /\ UNCHANGED << persistent, stdout, modv, acq, series, resampled, img, outv >>

\* def getLinePoints: (value['value']-minValue) raises TypeError on None
getLinePointsOk(values) == \A i \in 1..Len(values) : ~IsNone(values[i])

chancePrecips == [i \in 1..Len(halfHourValues) |-> halfHourValues[i].probabilityOfPrecipitation]
humidities == [i \in 1..Len(halfHourValues) |-> halfHourValues[i].relativeHumidity]

DrawRaises(elem) ==
    \/ elem = "line_precip" /\ ~getLinePointsOk(chancePrecips)
    \/ elem = "line_humid" /\ ~getLinePointsOk(humidities)

Drawn(elem) ==
    [canvas EXCEPT
        !.layers = Append(canvas.layers, elem),
        !.marker = IF elem = "marker"
                   THEN Some(MarkerBand(g.curTime, g.roundBegin, g.timeRange))
                   ELSE canvas.marker,
        !.tempScale = IF elem = "scale_labels" THEN Some(g.tempExtents)
                      ELSE canvas.tempScale]

\* Lines 125-246: one drawing statement group; the last one returns the image
Draw ==
    /\ pc = "draw"
    /\ LET elem == DrawOrder[g.next]
       IN  IF DrawRaises(elem)
           THEN /\ pc' = "crashed"
                /\ error' = "TypeError in getLinePoints"
                /\ UNCHANGED << g, canvas, img >>
           ELSE /\ canvas' = Drawn(elem)
                /\ g' = [g EXCEPT !.next = g.next + 1]
                /\ UNCHANGED error
                /\ IF g.next = Len(DrawOrder)
                   THEN /\ img' = Some(Drawn(elem))
                        /\ pc' = "output"
                   ELSE /\ UNCHANGED img
                        /\ pc' = "draw"
    /\ UNCHANGED << persistent, stdout, modv, acq, series, resampled, outv >>

---------------------------------------------------------------------------
(* Lines 322-334: test.png and the e-paper device *)

DeviceSteps == << "EPD", "init", "Clear", "display", "sleep" >>
\* variant: the except clause without the teardown call
OnDeviceFailure_Skip == "drawing_complete"
\* except: epd4in01f.epdconfig.module_exit()
OnDeviceFailure == "module_exit"

Output ==
    /\ pc = "output"
    /\ testPng' = IF args.test THEN img ELSE testPng
    /\ IF args.no_epaper
       THEN /\ pc' = "done"
            /\ UNCHANGED stdout
       ELSE /\ pc' = "epd"
            /\ stdout' = printd(stdout, "Drawing to e-paper...")
    /\ UNCHANGED << persistent, error, modv, acq, series, resampled, drawv,
                    deviceCalls, deviceFailed, teardownCalls >>

\* one statement of the try block; the driver call returns or raises
DeviceStep ==
    /\ pc = "epd"
    /\ LET step == DeviceSteps[Len(deviceCalls) + 1]
       IN  /\ deviceCalls' = Append(deviceCalls, step)
           /\ \E ok \in BOOLEAN :
               IF ok
               THEN /\ pc' = IF Len(deviceCalls) + 1 = Len(DeviceSteps)
                             THEN "drawing_complete" ELSE "epd"
                    /\ UNCHANGED deviceFailed
               ELSE /\ pc' = OnDeviceFailure
                    /\ deviceFailed' = Some(step)
    /\ UNCHANGED << persistent, error, stdout, modv, acq, series, resampled, drawv,
                    testPng, teardownCalls >>

\* the except clause: the teardown call returns, or raises out of the script
ModuleExit ==
    /\ pc = "module_exit"
    /\ teardownCalls' = teardownCalls + 1
    /\ \E ok \in BOOLEAN :
        IF ok
        THEN pc' = "drawing_complete" /\ UNCHANGED error
        ELSE pc' = "crashed" /\ error' = "module_exit raised"
    /\ UNCHANGED << persistent, stdout, modv, acq, series, resampled, drawv,
                    testPng, deviceCalls, deviceFailed >>

DrawingComplete ==
    /\ pc = "drawing_complete"
    /\ stdout' = printd(stdout, "Drawing complete")
    /\ pc' = "done"
    /\ UNCHANGED << persistent, error, modv, acq, series, resampled, drawv, outv >>

---------------------------------------------------------------------------
(* Specifications *)

Steps ==
    \/ CheckCache \/ Extract \/ Resample \/ DrawGraphBegin \/ Draw
    \/ Output \/ DeviceStep \/ ModuleExit \/ DrawingComplete

\* the scheduler's runs: every command line, a service with few documents
Next == StartRun(CommandLines, MaxRuns) \/ Fetch(FewForecasts) \/ Steps
Spec == Init /\ [][Next]_vars

\* the forecast sweep: one run, few command lines, every bounded document
NextForecasts == StartRun(ProbeCommandLines, 1) \/ Fetch(Forecasts) \/ Steps
SpecForecasts == InitForecasts /\ [][NextForecasts]_vars

---------------------------------------------------------------------------
(* Properties *)

\* the module-level values of lines 18-34 are set
Started == pc \notin {"idle", "usage_error"}
\* the run stands between lines 297 and 299: the three series are extracted
Extracted == pc = "resample"
\* the run stands at line 320: the while loop has run to its end, or
\* convertCToF has raised inside it
LoopCompleted == pc = "draw_begin"
Resampled == LoopCompleted \/ (pc = "crashed" /\ error = "TypeError in convertCToF")

\* the timestamps measureStart + k*30min below measureStart + 25h
GridTimes ==
    {measureStart + k * GridStepMinutes :
        k \in 0..((LookAheadMinutes + GridStepMinutes - 1) \div GridStepMinutes - 1)}
Rows == 1..Len(halfHourValues)
\* index of the last sample of the list with validity start <= t, 0 if none
LastAtOrBefore(list, t) ==
    LET c == {i \in 1..Len(list) : list[i].validTime <= t}
    IN  IF c = {} THEN 0 ELSE SetMax(c)

\* C1: every grid timestamp gets a row once the loop completes, and in every
\* recorded row each covariate that has a retained sample starting at or before
\* the row's time holds the value of the last such sample (the temperature
\* after conversion to Fahrenheit).
C1_StepHold ==
    Resampled =>
        /\ LoopCompleted => {halfHourValues[k].time : k \in Rows} = GridTimes
        /\ \A k \in Rows :
            LET row == halfHourValues[k]
                ip == LastAtOrBefore(precip, row.time)
                it == LastAtOrBefore(temp, row.time)
                ih == LastAtOrBefore(humid, row.time)
            IN  /\ row.time \in GridTimes
                /\ ip # 0 => row.probabilityOfPrecipitation = Some(precip[ip].value)
                /\ it # 0 => row.temperature = convertCToF(temp[it].value)
                /\ ih # 0 => row.relativeHumidity = Some(humid[ih].value)

\* C1 witness: a completed grid on which the precipitation series steps from its
\* first retained sample to its second
C1_Witness ==
    /\ LoopCompleted
    /\ Len(precip) = 2
    /\ \E k1 \in Rows, k2 \in Rows :
        /\ LastAtOrBefore(precip, halfHourValues[k1].time) = 1
        /\ LastAtOrBefore(precip, halfHourValues[k2].time) = 2
        /\ halfHourValues[k1].probabilityOfPrecipitation
             # halfHourValues[k2].probabilityOfPrecipitation

\* C2 as stated: whenever no retained sample of a series starts at or before the
\* row's time, that covariate of the row is unset (a recorded row always carries
\* a set temperature).
C2_UnsetWithoutPrecedingSample ==
    Resampled =>
        \A k \in Rows :
            LET row == halfHourValues[k]
            IN  /\ LastAtOrBefore(precip, row.time) = 0
                     => IsNone(row.probabilityOfPrecipitation)
                /\ LastAtOrBefore(humid, row.time) = 0 => IsNone(row.relativeHumidity)
                /\ LastAtOrBefore(temp, row.time) # 0

\* C2 amended: when no retained sample of a series starts at or before the grid
\* time, the covariate is unset only if the series has no retained sample at
\* all; if the series is non-empty the covariate takes the value of its first
\* retained sample.  An unset temperature ends the loop in its first iteration.
C2_FirstSampleFallback ==
    Resampled =>
        /\ \A k \in Rows :
            LET row == halfHourValues[k]
            IN  /\ LastAtOrBefore(precip, row.time) = 0 =>
                     row.probabilityOfPrecipitation =
                         IF precip = << >> THEN None ELSE Some(precip[1].value)
                /\ LastAtOrBefore(humid, row.time) = 0 =>
                     row.relativeHumidity =
                         IF humid = << >> THEN None ELSE Some(humid[1].value)
                /\ LastAtOrBefore(temp, row.time) = 0 =>
                     /\ temp # << >>
                     /\ row.temperature = convertCToF(temp[1].value)
        /\ temp = << >> <=> ~LoopCompleted
        /\ ~LoopCompleted => IsNone(curTemp) /\ halfHourValues = << >>
        /\ IsNone(curPrecip) <=> precip = << >>
        /\ IsNone(curHumid) <=> humid = << >>

\* C2 witness: a row before the first retained precipitation sample that holds
\* that sample's value, in a run whose humidity series is empty and unset
C2_Witness ==
    /\ LoopCompleted
    /\ precip # << >>
    /\ humid = << >>
    /\ \E k \in Rows :
        /\ LastAtOrBefore(precip, halfHourValues[k].time) = 0
        /\ halfHourValues[k].probabilityOfPrecipitation = Some(precip[1].value)
        /\ IsNone(halfHourValues[k].relativeHumidity)

\* the samples of a document series, as (value, local validity start)
Parsed(group) ==
    [i \in 1..Len(group.values) |->
        [value |-> group.values[i].value,
         validTime |-> extractTimeFromDuration(group.values[i].validTime)]]
\* the subsequence of the samples whose index is in keep
Kept(samples, keep) == [j \in 1..Cardinality(keep) |-> samples[Ascending(keep)[j]]]
InWindow(samples) ==
    {i \in 1..Len(samples) :
        measureStart <= samples[i].validTime /\ samples[i].validTime <= oneDayHence}
UpToWindowEnd(samples) ==
    {i \in 1..Len(samples) : samples[i].validTime <= measureStart + LookAheadMinutes}

\* C10 as stated: the retained samples of each series are exactly those whose
\* validity start lies between measureStart and measureStart + 25 hours.
C10_RetainedInsideWindow ==
    Extracted =>
        LET ps == Parsed(Val(result).probabilityOfPrecipitation)
            ts == Parsed(Val(result).temperature)
            hs == Parsed(Val(result).relativeHumidity)
        IN  /\ precip = Kept(ps, InWindow(ps))
            /\ temp = Kept(ts, InWindow(ts))
            /\ humid = Kept(hs, InWindow(hs))

\* C10 amended: the retained samples of each series are exactly those whose
\* validity start is at or before measureStart + 25 hours, in document order;
\* samples that start before measureStart are retained.
C10_RetainedUpToWindowEnd ==
    Extracted =>
        LET ps == Parsed(Val(result).probabilityOfPrecipitation)
            ts == Parsed(Val(result).temperature)
            hs == Parsed(Val(result).relativeHumidity)
        IN  /\ precip = Kept(ps, UpToWindowEnd(ps))
            /\ temp = Kept(ts, UpToWindowEnd(ts))
            /\ humid = Kept(hs, UpToWindowEnd(hs))

\* C10 witness: one series keeps a sample from before measureStart and one that
\* starts exactly at the window end, another series loses a later sample
C10_Witness ==
    /\ Extracted
    /\ \E i \in 1..Len(precip) : precip[i].validTime < measureStart
    /\ \E i \in 1..Len(precip) : precip[i].validTime = oneDayHence
    /\ Len(temp) < Len(Val(result).temperature.values)

\* the cache file did not exist when the run began
CacheAbsent == IsNone(cacheAtStart)
\* the cached document's update time is more than 24 hours before the `now`
\* the staleness test read
CacheStale ==
    /\ ~CacheAbsent
    /\ ~IsNone(checkNow)
    /\ extractTimeFromDuration(Val(cacheAtStart).updateTime) + CacheMaxAgeMinutes
         < Val(checkNow)

\* C3: a run calls the service at most once and reaches the call only when the
\* cache file is absent or its document is more than 24 hours old; once the
\* cache block is done (every call having returned), there was exactly one call
\* and the cache file holds the fetched document iff the cache was absent or
\* stale; otherwise there was no call, the file is unchanged and the series
\* extracted are those of the cached document.
C3_FetchIffAbsentOrStale ==
    /\ Len(fetches) <= 1
    /\ pc = "fetch" => (CacheAbsent \/ CacheStale) /\ fetches = << >>
    /\ error = "retrieve_weather raised" => (CacheAbsent \/ CacheStale)
    /\ pc \in {"extract", "resample"} =>
          IF CacheAbsent \/ CacheStale
          THEN /\ Len(fetches) = 1
               /\ fetches[1] = result
               /\ isfile(weather_cachefile)
               /\ fs[weather_cachefile] = Val(result)
          ELSE /\ fetches = << >>
               /\ result = cacheAtStart
               /\ fs[weather_cachefile] = Val(cacheAtStart)
               /\ pc = "resample" =>
                    /\ precip = extractTimeValues(
                          Val(cacheAtStart).probabilityOfPrecipitation, oneDayHence)
                    /\ temp = extractTimeValues(Val(cacheAtStart).temperature, oneDayHence)
                    /\ humid = extractTimeValues(
                          Val(cacheAtStart).relativeHumidity, oneDayHence)

\* C3 witness: a later run finds the cached document stale, fetches once and
\* leaves a different document in the cache file
C3_Witness ==
    /\ pc = "extract"
    /\ CacheStale
    /\ Len(fetches) = 1
    /\ fs[weather_cachefile] = Val(fetches[1])
    /\ fs[weather_cachefile] # Val(cacheAtStart)

MissingCovariate == IsNone(curPrecip) \/ IsNone(curTemp) \/ IsNone(curHumid)
InStdout(msg) == \E i \in 1..Len(stdout) : stdout[i] = msg

\* C4: when the loop has found a covariate with no value, the diagnostic is
\* printed only under --debug-output, the run does not end in the TypeError the
\* missing value causes, and the loop has recorded every grid point.
C4_MissingCovariateNonFatal ==
    (~IsNone(curTime) /\ MissingCovariate) =>
        /\ InStdout("no data for one of these values") => args.debug_output
        /\ error \notin {"TypeError in convertCToF", "TypeError in getLinePoints"}
        /\ Len(halfHourValues) = Cardinality(GridTimes)

\* the marker of a spoofed run sits at hour H+n of the window's start date and
\* its band stays inside the padded plot
SpoofedMarkerPlaced ==
    LET n == Val(args.current_time)
        target == DayOf(measureStart) * MinutesPerDay
                    + (HourOf(measureStart) + n) * MinutesPerHour
        band == Val(canvas.marker)
    IN  /\ band.center = GraphX2(target, g.roundBegin, g.timeRange)
        /\ band.left >= 2 * (GraphLeft + GraphPad) * g.timeRange
        /\ band.right <= 2 * (GraphRight - GraphPad) * g.timeRange
        /\ band.left <= band.right

\* C5: in a run with an accepted --current-time n, drawGraph does not fail on the
\* spoofed time, and the marker it draws is centred at hour H+n with its edges
\* inside the padded plot.
C5_SpoofedMarker ==
    (Started /\ ~IsNone(args.current_time)) =>
        /\ error # "ValueError in datetime.replace"
        /\ (~IsNone(canvas) /\ ~IsNone(canvas.marker)) => SpoofedMarkerPlaced

\* the part of C5 the code does satisfy: whenever drawGraph gets past line 106
\* the marker is placed as claimed (reached for every n when H = 0, for n < 12
\* when H = 12)
C5_MarkerWhenReplaceSucceeds ==
    (Started /\ ~IsNone(args.current_time) /\ ~IsNone(canvas) /\ ~IsNone(canvas.marker))
        => SpoofedMarkerPlaced

\* C6: the device steps are entered in the order construct, init, Clear,
\* display, sleep; after a step fails no later step is entered, module_exit is
\* called exactly once and the run ends without the step's error; without a
\* failure module_exit is never called; under --no-epaper no device step and no
\* teardown happens.
C6_DeviceFailureHandling ==
    /\ Len(deviceCalls) <= Len(DeviceSteps)
    /\ \A i \in 1..Len(deviceCalls) : deviceCalls[i] = DeviceSteps[i]
    /\ teardownCalls <= 1
    /\ IsNone(deviceFailed) => teardownCalls = 0 /\ pc # "module_exit"
    /\ ~IsNone(deviceFailed) =>
          /\ deviceCalls[Len(deviceCalls)] = Val(deviceFailed)
          /\ \/ pc = "module_exit" /\ teardownCalls = 0
             \/ pc \in {"drawing_complete", "done"} /\ teardownCalls = 1 /\ error = ""
             \/ pc = "crashed" /\ teardownCalls = 1 /\ error = "module_exit raised"
    /\ pc = "done" /\ ~args.no_epaper /\ IsNone(deviceFailed) => deviceCalls = DeviceSteps
    /\ (Started /\ args.no_epaper) =>
          deviceCalls = << >> /\ teardownCalls = 0 /\ pc \notin {"epd", "module_exit"}

\* C6 witness: Clear raised, sleep and display were never entered, the
\* teardown ran once and the run finished
C6_Witness ==
    /\ pc = "done"
    /\ deviceFailed = Some("Clear")
    /\ deviceCalls = << "EPD", "init", "Clear" >>
    /\ teardownCalls = 1

\* C7: runs on different local days use different cache paths, runs on the
\* same local day use the same path.
C7_CacheFilePerDay ==
    \A a \in cacheFilesUsed, b \in cacheFilesUsed :
        /\ a.day # b.day => a.path # b.path
        /\ a.day = b.day => a.path = b.path

\* C8: the temperature scale has lower bound <= 50 and upper bound >= 60, lies
\* at least 10 degrees outside the observed minimum and maximum, and every
\* plotted temperature is strictly inside it; the scale the labels show is the
\* one computed.
C8_TemperatureScale ==
    /\ (pc = "draw" /\ g.next = 1) =>
          /\ g.tempExtents.lo <= TempFloorLow
          /\ g.tempExtents.hi >= TempFloorHigh
          /\ \A k \in Rows :
              LET v == halfHourValues[k].temperature
              IN  /\ g.tempExtents.lo <= v - TempMargin
                  /\ g.tempExtents.hi >= v + TempMargin
                  /\ g.tempExtents.lo < v /\ v < g.tempExtents.hi
    /\ (~IsNone(canvas) /\ ~IsNone(canvas.tempScale)) =>
          canvas.tempScale = Some(g.tempExtents)

\* C8 witness: every grid temperature lies in [55,58] degrees F and the scale
\* labels have been drawn
C8_Witness ==
    /\ pc = "draw"
    /\ ~IsNone(canvas.tempScale)
    /\ \A k \in Rows : halfHourValues[k].temperature >= 550
                       /\ halfHourValues[k].temperature <= 580
    /\ g.tempExtents.lo <= TempFloorLow /\ g.tempExtents.hi >= TempFloorHigh

IsPrefix(a, b) == Len(a) <= Len(b) /\ \A i \in 1..Len(a) : a[i] = b[i]

\* C9 as stated: background, frame, marker, gridlines, scale labels, polylines,
\* checkpoint labels, time labels, and the title and legend last.
C9_TitleLegendLast ==
    ~IsNone(canvas) =>
        IsPrefix(canvas.layers,
                 << "background", "frame", "marker", "gridlines", "scale_labels",
                    "line_precip", "line_temp", "line_humid", "checkpoints",
                    "time_labels", "title_legend" >>)

\* C9 amended: the title and legend are drawn right after the background, and
\* then frame, marker, gridlines, scale labels, the precipitation, temperature
\* and humidity polylines, checkpoint labels and time labels, in that order;
\* the returned image holds all of them.
C9_TitleLegendFirst ==
    /\ ~IsNone(canvas) =>
          IsPrefix(canvas.layers,
                   << "background", "title_legend", "frame", "marker", "gridlines",
                      "scale_labels", "line_precip", "line_temp", "line_humid",
                      "checkpoints", "time_labels" >>)
    /\ ~IsNone(img) => Len(Val(img).layers) = 11

\* C9 witness: drawGraph has returned a complete image
C9_Witness ==
    /\ pc = "output"
    /\ ~IsNone(img)
    /\ Val(img).layers[2] = "title_legend"
    /\ Val(img).layers[11] = "time_labels"

====
